---- MODULE Spec2Model ----
(***************************************************************************)
(* Employee-management dashboard: the relational store defined by the      *)
(* migration (workers, projects, vehicles, equipment,                      *)
(* resource_allocations with its foreign keys and CHECK constraint) and    *)
(* the browser client of app/home/page.tsx (fetchData, the realtime        *)
(* subscription and the add / delete / assign handlers of the views).      *)
(*                                                                         *)
(* Identifiers are the naturals 1, 2, ... handed out per table in creation *)
(* order (gen_random_uuid() never repeats an id; created_at DEFAULT NOW()  *)
(* grows with it), so "ORDER BY created_at DESC" is "by id, descending".   *)
(***************************************************************************)
EXTENDS Naturals, Sequences, FiniteSets

\* ------------------------------------------------------------- bounds --
MaxWorkers == 1
MaxProjects == 2
MaxVehicles == 1
MaxEquipment == 1
MaxAllocations == 2

\* a null id
NULL == 0
\* a null error / a null notice
None == "null"

MaxFetches == 2
MaxEvents == 3
\* distinct texts typed into a license plate or serial number field
MaxTexts == 2

VARIABLES
    \* the store
    db,                \* the five tables: table name -> (id -> row)
    issued,            \* per table, how many ids gen_random_uuid() has handed out
    \* Home: the state of the page component
    activeSection, workers, projects, vehicles, equipment, allocations,
    loading, connectionError,
    inflight,          \* the fetchData calls awaiting their Promise.all, oldest first
    events,            \* postgres_changes events not yet delivered to the callback
    \* the mounted view (WorkersView, ProjectsView, VehiclesView, EquipmentView)
    isModalOpen, isAssignModalOpen, selectedProjectId, assignType, assignId,
    text,              \* what the add form's required inputs hold; NULL: empty
    awaiting,          \* handleAssignResource between its insert and its update
    lastWrite          \* the request of this page the store answered in the last
                       \* step, and the error it was given

storeVars == <<db, issued>>
homeVars == <<activeSection, workers, projects, vehicles, equipment, allocations,
              loading, connectionError>>
viewVars == <<isModalOpen, isAssignModalOpen, selectedProjectId, assignType, assignId,
              text>>
vars == <<db, issued, activeSection, workers, projects, vehicles, equipment,
          allocations, loading, connectionError, inflight, events, isModalOpen,
          isAssignModalOpen, selectedProjectId, assignType, assignId, text,
          awaiting, lastWrite>>

\* ---------------------------------------------------------- the store --

AssetTables == {"workers", "vehicles", "equipment"}

\* resource_allocations column that references the given table
RefColumn(table) ==
    CASE table = "workers" -> "worker_id"
      [] table = "vehicles" -> "vehicle_id"
      [] table = "equipment" -> "equipment_id"

MaxRows(table) ==
    CASE table = "workers" -> MaxWorkers
      [] table = "projects" -> MaxProjects
      [] table = "vehicles" -> MaxVehicles
      [] table = "equipment" -> MaxEquipment
      [] table = "resource_allocations" -> MaxAllocations

Extend(f, k, v) == [x \in DOMAIN f \cup {k} |-> IF x = k THEN v ELSE f[x]]

Restrict(f, S) == [x \in S |-> f[x]]

\* (mutant) the table without its CHECK constraint
no_constraint(row) == TRUE

\* CONSTRAINT at_least_one_resource
at_least_one_resource(row) ==
    \/ row.worker_id # NULL
    \/ row.vehicle_id # NULL
    \/ row.equipment_id # NULL

\* REFERENCES <table>(id): a non-null reference names an existing row
References(d, table, id) == id = NULL \/ id \in DOMAIN d[table]

\* (mutant) the column without UNIQUE
Unique_not(rows, col, val) == TRUE

\* <col> TEXT UNIQUE: no other row holds the same non-null value
Unique(rows, col, val) == val = NULL \/ \A i \in DOMAIN rows : rows[i][col] # val

Result(err, d) == [error |-> err, db |-> d]

\* INSERT INTO workers / projects / vehicles / equipment
InsertRow(d, table, id, row) ==
    IF table = "workers" /\ ~Unique(d.workers, "email", row.email)
    THEN Result("unique_violation", d)
    ELSE IF table = "vehicles" /\ ~Unique(d.vehicles, "license_plate", row.license_plate)
    THEN Result("unique_violation", d)
    ELSE IF table = "equipment" /\ ~Unique(d.equipment, "serial_number", row.serial_number)
    THEN Result("unique_violation", d)
    ELSE Result(None, [d EXCEPT ![table] = Extend(@, id, row)])

\* (mutant) the table without its REFERENCES clauses
InsertAllocation_unreferenced(d, id, row) ==
    IF row.project_id = NULL
    THEN Result("not_null_violation", d)
    ELSE IF ~at_least_one_resource(row)
    THEN Result("check_violation", d)
    ELSE Result(None, [d EXCEPT !.resource_allocations = Extend(@, id, row)])

\* (mutant) the table with UNIQUE (project_id, worker_id)
InsertAllocation_unique(d, id, row) ==
    IF row.project_id = NULL
    THEN Result("not_null_violation", d)
    ELSE IF ~at_least_one_resource(row)
    THEN Result("check_violation", d)
    ELSE IF ~(/\ row.project_id \in DOMAIN d.projects
              /\ References(d, "workers", row.worker_id)
              /\ References(d, "vehicles", row.vehicle_id)
              /\ References(d, "equipment", row.equipment_id))
    THEN Result("foreign_key_violation", d)
    ELSE IF \E a \in DOMAIN d.resource_allocations :
                /\ d.resource_allocations[a].project_id = row.project_id
                /\ d.resource_allocations[a].worker_id = row.worker_id
                /\ row.worker_id # NULL
    THEN Result("unique_violation", d)
    ELSE Result(None, [d EXCEPT !.resource_allocations = Extend(@, id, row)])

\* INSERT INTO resource_allocations: NOT NULL and CHECK are evaluated on the
\* new row, the foreign keys after it
InsertAllocation(d, id, row) ==
    IF row.project_id = NULL
    THEN Result("not_null_violation", d)
    ELSE IF ~at_least_one_resource(row)
    THEN Result("check_violation", d)
    ELSE IF ~(/\ row.project_id \in DOMAIN d.projects
              /\ References(d, "workers", row.worker_id)
              /\ References(d, "vehicles", row.vehicle_id)
              /\ References(d, "equipment", row.equipment_id))
    THEN Result("foreign_key_violation", d)
    ELSE Result(None, [d EXCEPT !.resource_allocations = Extend(@, id, row)])

\* (mutant) the project reference without ON DELETE CASCADE
Cascade_none(allocs, id) == allocs

\* ON DELETE CASCADE: the allocations that survive the delete of a project
Cascade(allocs, id) ==
    Restrict(allocs, {a \in DOMAIN allocs : allocs[a].project_id # id})

\* (mutant) the asset references without an ON DELETE clause that acts
SetNull_kept(allocs, col, id) == allocs

\* ON DELETE SET NULL: the allocations after the referenced row is deleted
SetNull(allocs, col, id) ==
    [a \in DOMAIN allocs |->
        IF allocs[a][col] = id THEN [allocs[a] EXCEPT ![col] = NULL] ELSE allocs[a]]

\* (mutant) deleting a project releases the assets allocated to it
DeleteProject_releasing(d, id) ==
    LET freed(table) ==
            {d.resource_allocations[a][RefColumn(table)] :
                a \in {b \in DOMAIN d.resource_allocations :
                          d.resource_allocations[b].project_id = id}}
        release(table) ==
            [i \in DOMAIN d[table] |->
                IF i \in freed(table) THEN [d[table][i] EXCEPT !.status = "available"]
                ELSE d[table][i]]
    IN  IF id \notin DOMAIN d.projects
        THEN Result(None, d)
        ELSE Result(None, [d EXCEPT !.projects = Restrict(@, DOMAIN @ \ {id}),
                                    !.vehicles = release("vehicles"),
                                    !.equipment = release("equipment"),
                                    !.resource_allocations =
                                        Restrict(@, {a \in DOMAIN @ : @[a].project_id # id})])

\* DELETE FROM projects WHERE id = ...
DeleteProject(d, id) ==
    IF id \notin DOMAIN d.projects
    THEN Result(None, d)
    ELSE Result(None, [d EXCEPT !.projects = Restrict(@, DOMAIN @ \ {id}),
                                !.resource_allocations = Cascade(@, id)])

\* (mutant) a delete that matches no row is answered with an error
DeleteAsset_strict(d, table, id) ==
    IF id \notin DOMAIN d[table]
    THEN Result("not_found", d)
    ELSE LET after == SetNull(d.resource_allocations, RefColumn(table), id)
         IN  IF \E a \in DOMAIN after : ~at_least_one_resource(after[a])
             THEN Result("check_violation", d)
             ELSE Result(None, [d EXCEPT ![table] = Restrict(@, DOMAIN @ \ {id}),
                                         !.resource_allocations = after])

\* (mutant) the SET NULL update escapes the CHECK constraint
DeleteAsset_unchecked(d, table, id) ==
    IF id \notin DOMAIN d[table]
    THEN Result(None, d)
    ELSE Result(None, [d EXCEPT ![table] = Restrict(@, DOMAIN @ \ {id}),
                                !.resource_allocations =
                                    SetNull(@, RefColumn(table), id)])

\* DELETE FROM workers / vehicles / equipment WHERE id = ...: the SET NULL
\* update of the referencing allocations is itself subject to the CHECK
\* constraint, and its violation aborts the whole statement
DeleteAsset(d, table, id) ==
    IF id \notin DOMAIN d[table]
    THEN Result(None, d)
    ELSE LET after == SetNull(d.resource_allocations, RefColumn(table), id)
         IN  IF \E a \in DOMAIN after : ~at_least_one_resource(after[a])
             THEN Result("check_violation", d)
             ELSE Result(None, [d EXCEPT ![table] = Restrict(@, DOMAIN @ \ {id}),
                                         !.resource_allocations = after])

\* (mutant) the update filters on a column that matches no row
UpdateStatus_nowhere(d, table, id, status) == Result(None, d)

\* UPDATE vehicles / equipment SET status = ... WHERE id = ...
UpdateStatus(d, table, id, status) ==
    IF id \notin DOMAIN d[table]
    THEN Result(None, d)
    ELSE Result(None, [d EXCEPT ![table][id].status = status])

\* rows inserted, updated or deleted between two contents of one table
ChangedRows(before, after) ==
    {i \in DOMAIN before \cup DOMAIN after :
        \/ i \notin DOMAIN before
        \/ i \notin DOMAIN after
        \/ before[i] # after[i]}

EmptyDb ==
    [workers |-> <<>>, projects |-> <<>>, vehicles |-> <<>>, equipment |-> <<>>,
     resource_allocations |-> <<>>]

\* (mutant) ORDER BY created_at ASC
RECURSIVE Descending_ascending(_, _)
Descending_ascending(rows, ids) ==
    IF ids = {} THEN <<>>
    ELSE LET m == CHOOSE x \in ids : \A y \in ids : x <= y
         IN  <<rows[m]>> \o Descending_ascending(rows, ids \ {m})

\* SELECT * FROM <table> ORDER BY created_at DESC
RECURSIVE Descending(_, _)
Descending(rows, ids) ==
    IF ids = {} THEN <<>>
    ELSE LET m == CHOOSE x \in ids : \A y \in ids : y <= x
         IN  <<rows[m]>> \o Descending(rows, ids \ {m})

\* SELECT * FROM <table> [ORDER BY created_at DESC]; resource_allocations is
\* read without an ORDER BY, so its rows come as a set
Select(d, table) ==
    IF table = "resource_allocations"
    THEN {d[table][a] : a \in DOMAIN d[table]}
    ELSE Descending(d[table], DOMAIN d[table])

\* ------------------------------------------------------ Home: fetchData --
\* the last step was no request of this page to the store
NoWrite == [op |-> "none", table |-> "none", id |-> NULL, project |-> NULL,
            error |-> None]

\* the store answered a request of this page
Wrote(op, table, id, project, error) ==
    lastWrite' = [op |-> op, table |-> table, id |-> id, project |-> project,
                  error |-> error]

Tables == <<"workers", "projects", "vehicles", "equipment", "resource_allocations">>

CannotConnect == "Cannot connect to Supabase. Please check your connection settings."

\* the five selects of one fetchData call, none answered
NewFetch ==
    [t \in {Tables[i] : i \in 1..5} |->
        [answered |-> FALSE, data |-> Select(EmptyDb, t), error |-> None]]

\* error?.message?.includes('Failed to fetch') || ...includes('Connection refused')
IsConnectionMessage(message) == message \in {"Failed to fetch", "Connection refused"}

\* the error of the first select, in the order of the Promise.all, that has one
FirstError(f) ==
    LET failed == {i \in 1..5 : f[Tables[i]].error # None}
    IN  IF failed = {} THEN None
        ELSE f[Tables[CHOOSE i \in failed : \A j \in failed : i <= j]].error

\* the synchronous head of fetchData: setConnectionError(null), five selects sent
fetchData ==
    /\ Len(inflight) < MaxFetches
    /\ connectionError' = None
    /\ inflight' = Append(inflight, NewFetch)

RemoveAt(q, i) == [j \in 1..(Len(q) - 1) |-> IF j < i THEN q[j] ELSE q[j + 1]]

\* a view loses its state when it is unmounted: the section changes, or
\* renderContent shows the connection notice instead of the view
Unmount ==
    /\ isModalOpen' = FALSE
    /\ isAssignModalOpen' = FALSE
    /\ selectedProjectId' = NULL
    /\ assignType' = "worker"
    /\ assignId' = NULL
    /\ text' = NULL
    /\ awaiting' = [awaiting EXCEPT !.mounted = FALSE]

\* renderContent: the view of a section is shown
Rendered(section) ==
    /\ connectionError = None
    /\ ~loading
    /\ activeSection = section

\* the answer to one select: { data, error }
Answer(table, message) ==
    IF message = None
    THEN [answered |-> TRUE, data |-> Select(db, table), error |-> None]
    ELSE [answered |-> TRUE, data |-> Select(EmptyDb, table), error |-> message]

\* selects of a fetchData call are answered by the store, or fail; those the
\* store serves with no write in between are answered in one step
AnswerSelect(i, tables, message) ==
    /\ i \in 1..Len(inflight)
    /\ tables # {}
    /\ \A t \in tables : ~inflight[i][t].answered
    /\ inflight' = [inflight EXCEPT ![i] =
            [t \in DOMAIN @ |-> IF t \in tables THEN Answer(t, message) ELSE @[t]]]
    /\ lastWrite' = NoWrite
    /\ UNCHANGED <<storeVars, homeVars, viewVars, events, awaiting>>

\* (mutant) the setters are called without the if (data)
Setter_always(current, answer) == answer.data

\* what a setter leaves in a collection: if (data) set(data)
Setter(current, answer) == IF answer.error = None THEN answer.data ELSE current

\* (mutant) the collections are replaced only when all five selects returned
\* data
fetchDataResolves_together(i) ==
    /\ i \in 1..Len(inflight)
    /\ \A t \in DOMAIN inflight[i] : inflight[i][t].answered
    /\ LET f == inflight[i]
           notice == IsConnectionMessage(FirstError(f))
           all == FirstError(f) = None
       IN  /\ connectionError' = IF notice THEN CannotConnect ELSE connectionError
           /\ workers' = IF all THEN f.workers.data ELSE workers
           /\ projects' = IF all THEN f.projects.data ELSE projects
           /\ vehicles' = IF all THEN f.vehicles.data ELSE vehicles
           /\ equipment' = IF all THEN f.equipment.data ELSE equipment
           /\ allocations' = IF all THEN f.resource_allocations.data ELSE allocations
           /\ IF notice
              THEN Unmount
              ELSE UNCHANGED <<viewVars, awaiting>>
    /\ loading' = FALSE
    /\ inflight' = RemoveAt(inflight, i)
    /\ lastWrite' = NoWrite
    /\ UNCHANGED <<storeVars, activeSection, events>>

\* the Promise.all of a fetchData call resolves: lines 50-60 and 65-67
fetchDataResolves(i) ==
    /\ i \in 1..Len(inflight)
    /\ \A t \in DOMAIN inflight[i] : inflight[i][t].answered
    /\ LET f == inflight[i]
           notice == IsConnectionMessage(FirstError(f))
       IN  /\ connectionError' = IF notice THEN CannotConnect ELSE connectionError
           /\ workers' = Setter(workers, f.workers)
           /\ projects' = Setter(projects, f.projects)
           /\ vehicles' = Setter(vehicles, f.vehicles)
           /\ equipment' = Setter(equipment, f.equipment)
           /\ allocations' = Setter(allocations, f.resource_allocations)
           /\ IF notice
              THEN Unmount
              ELSE UNCHANGED <<viewVars, awaiting>>
    /\ loading' = FALSE
    /\ inflight' = RemoveAt(inflight, i)
    /\ lastWrite' = NoWrite
    /\ UNCHANGED <<storeVars, activeSection, events>>

\* (mutant) the callback is debounced: pending events are served by one fetch
postgres_changes_coalesced ==
    /\ events > 0
    /\ events' = 0
    /\ fetchData
    /\ lastWrite' = NoWrite
    /\ UNCHANGED <<storeVars, activeSection, workers, projects, vehicles, equipment,
                   allocations, loading, viewVars, awaiting>>

\* the postgres_changes callback of the subscription: () => { fetchData() }
postgres_changes ==
    /\ events > 0
    /\ events' = events - 1
    /\ fetchData
    /\ lastWrite' = NoWrite
    /\ UNCHANGED <<storeVars, activeSection, workers, projects, vehicles, equipment,
                   allocations, loading, viewVars, awaiting>>

\* (mutant) fetchData without its finally block
fetchDataThrows_loading(i, message) ==
    /\ i \in 1..Len(inflight)
    /\ \E t \in DOMAIN inflight[i] : ~inflight[i][t].answered
    /\ IF IsConnectionMessage(message)
       THEN connectionError' = CannotConnect /\ Unmount
       ELSE UNCHANGED <<connectionError, viewVars, awaiting>>
    /\ inflight' = RemoveAt(inflight, i)
    /\ lastWrite' = NoWrite
    /\ UNCHANGED <<storeVars, activeSection, workers, projects, vehicles, equipment,
                   allocations, loading, events>>

\* a select of a fetchData call rejects, so its Promise.all does: lines 61-67
fetchDataThrows(i, message) ==
    /\ i \in 1..Len(inflight)
    /\ \E t \in DOMAIN inflight[i] : ~inflight[i][t].answered
    /\ IF IsConnectionMessage(message)
       THEN connectionError' = CannotConnect /\ Unmount
       ELSE UNCHANGED <<connectionError, viewVars, awaiting>>
    /\ loading' = FALSE
    /\ inflight' = RemoveAt(inflight, i)
    /\ lastWrite' = NoWrite
    /\ UNCHANGED <<storeVars, activeSection, workers, projects, vehicles, equipment,
                   allocations, events>>

\* ---------------------------------------------------- writes to the store --
Count(S) == Cardinality(S)

\* the row changes a statement made: each is one postgres_changes event
NumChanges(before, after) ==
    Count(ChangedRows(before.workers, after.workers))
    + Count(ChangedRows(before.projects, after.projects))
    + Count(ChangedRows(before.vehicles, after.vehicles))
    + Count(ChangedRows(before.equipment, after.equipment))
    + Count(ChangedRows(before.resource_allocations, after.resource_allocations))

\* a request that does not reach the store comes back with an error
Request(reaches, r) == IF reaches THEN r ELSE Result("Failed to fetch", db)

\* the statement takes effect and its row changes are published
Commit(r) ==
    /\ events + NumChanges(db, r.db) <= MaxEvents
    /\ db' = r.db
    /\ events' = events + NumChanges(db, r.db)

\* the id the next insert into the table is given
NextId(table) == issued[table] + 1

Issue(table, r) ==
    issued' = IF r.error = None THEN [issued EXCEPT ![table] = @ + 1] ELSE issued

WorkerRow(id) == [id |-> id, status |-> "active", email |-> NULL]
ProjectRow(id) == [id |-> id, status |-> "planning"]
VehicleRow(id, plate) == [id |-> id, status |-> "available", license_plate |-> plate]
EquipmentRow(id, serial) == [id |-> id, status |-> "available", serial_number |-> serial]

\* (mutant) the add handlers clear the inputs whatever the insert answered
Add_clearing(section, row, reaches) ==
    /\ Rendered(section)
    /\ isModalOpen
    /\ text # NULL
    /\ LET r == Request(reaches, InsertRow(db, section, NextId(section), row))
       IN  /\ r.error = None => issued[section] < MaxRows(section)
           /\ Commit(r)
           /\ Issue(section, r)
           /\ Wrote("insert", section, NextId(section), NULL, r.error)
           /\ text' = NULL
           /\ IF r.error = None
              THEN /\ isModalOpen' = FALSE
                   /\ fetchData
              ELSE UNCHANGED <<isModalOpen, connectionError, inflight>>
    /\ UNCHANGED <<activeSection, workers, projects, vehicles, equipment, allocations,
                   loading, isAssignModalOpen, selectedProjectId, assignType,
                   assignId, awaiting>>

\* (mutant) the add handlers refresh whatever the insert answered
Add_refreshing(section, row, reaches) ==
    /\ Rendered(section)
    /\ isModalOpen
    /\ text # NULL
    /\ LET r == Request(reaches, InsertRow(db, section, NextId(section), row))
       IN  /\ r.error = None => issued[section] < MaxRows(section)
           /\ Commit(r)
           /\ Issue(section, r)
           /\ Wrote("insert", section, NextId(section), NULL, r.error)
           /\ isModalOpen' = (r.error # None)
           /\ text' = IF r.error = None THEN NULL ELSE text
    /\ fetchData
    /\ UNCHANGED <<activeSection, workers, projects, vehicles, equipment, allocations,
                   loading, isAssignModalOpen, selectedProjectId, assignType,
                   assignId, awaiting>>

\* the body shared by handleAddWorker, handleAddProject, handleAddVehicle and
\* handleAddEquipment: insert, and on success close the form and refresh
Add(section, row, reaches) ==
    /\ Rendered(section)
    /\ isModalOpen
    /\ text # NULL
    /\ LET r == Request(reaches, InsertRow(db, section, NextId(section), row))
       IN  /\ r.error = None => issued[section] < MaxRows(section)
           /\ Commit(r)
           /\ Issue(section, r)
           /\ Wrote("insert", section, NextId(section), NULL, r.error)
           /\ IF r.error = None
              THEN /\ isModalOpen' = FALSE
                   /\ text' = NULL
                   /\ fetchData
              ELSE UNCHANGED <<isModalOpen, text, connectionError, inflight>>
    /\ UNCHANGED <<activeSection, workers, projects, vehicles, equipment, allocations,
                   loading, isAssignModalOpen, selectedProjectId, assignType,
                   assignId, awaiting>>

handleAddWorker(reaches) ==
    Add("workers", WorkerRow(NextId("workers")), reaches)

handleAddProject(reaches) ==
    Add("projects", ProjectRow(NextId("projects")), reaches)

handleAddVehicle(plate, reaches) ==
    Add("vehicles", VehicleRow(NextId("vehicles"), plate), reaches)

handleAddEquipment(serial, reaches) ==
    Add("equipment", EquipmentRow(NextId("equipment"), serial), reaches)

\* the ids of the rows a collection of the page lists
Ids(collection) == {collection[i].id : i \in 1..Len(collection)}

\* the body shared by handleDeleteWorker, VehiclesView.handleDelete and
\* EquipmentView.handleDelete: delete, ignore the answer, refresh
Delete(section, id, reaches) ==
    /\ Rendered(section)
    /\ LET r == Request(reaches,
                    IF section = "projects" THEN DeleteProject(db, id)
                    ELSE DeleteAsset(db, section, id))
       IN  /\ Commit(r)
           /\ Wrote("delete", section, id, NULL, r.error)
    /\ fetchData
    /\ UNCHANGED <<issued, activeSection, workers, projects, vehicles, equipment,
                   allocations, loading, viewVars, awaiting>>

handleDeleteWorker(id, reaches) ==
    /\ id \in Ids(workers)
    /\ Delete("workers", id, reaches)

handleDeleteProject(id, reaches) ==
    /\ id \in Ids(projects)
    /\ Delete("projects", id, reaches)

VehiclesView_handleDelete(id, reaches) ==
    /\ id \in Ids(vehicles)
    /\ Delete("vehicles", id, reaches)

EquipmentView_handleDelete(id, reaches) ==
    /\ id \in Ids(equipment)
    /\ Delete("equipment", id, reaches)

\* ------------------------------------------------ ProjectsView: assigning --
NotAwaiting == [table |-> "none", id |-> NULL, project |-> NULL, mounted |-> FALSE]

\* assignType -> the table of the asset
AssetTable(type) ==
    CASE type = "worker" -> "workers"
      [] type = "vehicle" -> "vehicles"
      [] type = "equipment" -> "equipment"

\* (mutant) a vehicle is written to equipment_id and an equipment item to
\* vehicle_id
Payload_swapped(id, project, type, asset) ==
    [id |-> id,
     project_id |-> project,
     worker_id |-> IF type = "worker" THEN asset ELSE NULL,
     vehicle_id |-> IF type = "equipment" THEN asset ELSE NULL,
     equipment_id |-> IF type = "vehicle" THEN asset ELSE NULL]

\* lines 478-481: the row to insert, one reference column set
Payload(id, project, type, asset) ==
    [id |-> id,
     project_id |-> project,
     worker_id |-> IF type = "worker" THEN asset ELSE NULL,
     vehicle_id |-> IF type = "vehicle" THEN asset ELSE NULL,
     equipment_id |-> IF type = "equipment" THEN asset ELSE NULL]

\* lines 566-568: the options of the "Select Resource" select
Options(type) ==
    CASE type = "worker" -> Ids(workers)
      [] type = "vehicle" ->
            {vehicles[i].id : i \in {j \in 1..Len(vehicles) : vehicles[j].status = "available"}}
      [] type = "equipment" ->
            {equipment[i].id : i \in {j \in 1..Len(equipment) : equipment[j].status = "available"}}

\* (mutant) a project card is given every allocation
projectAllocations_all(project) == allocations

\* line 578: allocations.filter(a => a.project_id === project.id)
projectAllocations(project) == {a \in allocations : a.project_id = project}

\* lines 490-492: close the assign form and refresh
AssignDone(mounted) ==
    /\ IF mounted
       THEN /\ isAssignModalOpen' = FALSE
            /\ assignId' = NULL
       ELSE UNCHANGED <<isAssignModalOpen, assignId>>
    /\ fetchData

\* (mutant) a status update follows the insert for a worker too
handleAssignResource_marking(reaches) ==
    /\ Rendered("projects")
    /\ isAssignModalOpen
    /\ selectedProjectId # NULL
    /\ assignId # NULL
    /\ assignId \in Options(assignType)
    /\ awaiting = NotAwaiting
    /\ issued.resource_allocations < MaxAllocations
    /\ LET id == NextId("resource_allocations")
           row == Payload(id, selectedProjectId, assignType, assignId)
           r == Request(reaches, InsertAllocation(db, id, row))
       IN  /\ Commit(r)
           /\ Issue("resource_allocations", r)
           /\ Wrote("assign", AssetTable(assignType), assignId, selectedProjectId,
                    r.error)
           /\ awaiting' = IF r.error # None THEN awaiting
                          ELSE [table |-> AssetTable(assignType), id |-> assignId,
                                project |-> selectedProjectId, mounted |-> TRUE]
    /\ UNCHANGED <<activeSection, workers, projects, vehicles, equipment, allocations,
                   loading, connectionError, inflight, viewVars>>

\* (mutant) the status update follows the insert whatever it answered
handleAssignResource_unchecked(reaches) ==
    /\ Rendered("projects")
    /\ isAssignModalOpen
    /\ selectedProjectId # NULL
    /\ assignId # NULL
    /\ assignId \in Options(assignType)
    /\ awaiting = NotAwaiting
    /\ issued.resource_allocations < MaxAllocations
    /\ LET id == NextId("resource_allocations")
           row == Payload(id, selectedProjectId, assignType, assignId)
           r == Request(reaches, InsertAllocation(db, id, row))
       IN  /\ Commit(r)
           /\ Issue("resource_allocations", r)
           /\ Wrote("assign", AssetTable(assignType), assignId, selectedProjectId,
                    r.error)
           /\ IF assignType = "worker"
              THEN IF r.error # None
                   THEN UNCHANGED <<isAssignModalOpen, assignId, awaiting,
                                    connectionError, inflight>>
                   ELSE AssignDone(TRUE) /\ UNCHANGED awaiting
              ELSE /\ awaiting' = [table |-> AssetTable(assignType), id |-> assignId,
                                   project |-> selectedProjectId, mounted |-> TRUE]
                   /\ UNCHANGED <<isAssignModalOpen, assignId, connectionError, inflight>>
    /\ UNCHANGED <<activeSection, workers, projects, vehicles, equipment, allocations,
                   loading, isModalOpen, selectedProjectId, assignType,
                   text>>

\* handleAssignResource up to its second await: lines 474-487
handleAssignResource(reaches) ==
    /\ Rendered("projects")
    /\ isAssignModalOpen
    /\ selectedProjectId # NULL
    /\ assignId # NULL
    /\ assignId \in Options(assignType)
    /\ awaiting = NotAwaiting
    /\ issued.resource_allocations < MaxAllocations
    /\ LET id == NextId("resource_allocations")
           row == Payload(id, selectedProjectId, assignType, assignId)
           r == Request(reaches, InsertAllocation(db, id, row))
       IN  /\ Commit(r)
           /\ Issue("resource_allocations", r)
           /\ Wrote("assign", AssetTable(assignType), assignId, selectedProjectId,
                    r.error)
           /\ IF r.error # None
              THEN UNCHANGED <<isAssignModalOpen, assignId, awaiting, connectionError,
                               inflight>>
              ELSE IF assignType = "worker"
              THEN AssignDone(TRUE) /\ UNCHANGED awaiting
              ELSE /\ awaiting' = [table |-> AssetTable(assignType), id |-> assignId,
                                   project |-> selectedProjectId, mounted |-> TRUE]
                   /\ UNCHANGED <<isAssignModalOpen, assignId, connectionError, inflight>>
    /\ UNCHANGED <<activeSection, workers, projects, vehicles, equipment, allocations,
                   loading, isModalOpen, selectedProjectId, assignType,
                   text>>

\* (mutant) the answer of the status update is checked as the insert's is
handleAssignResource_update_checked(reaches) ==
    /\ awaiting # NotAwaiting
    /\ LET r == Request(reaches, UpdateStatus(db, awaiting.table, awaiting.id, "in_use"))
       IN  /\ Commit(r)
           /\ Wrote("update", awaiting.table, awaiting.id, awaiting.project, r.error)
           /\ IF r.error = None
              THEN AssignDone(awaiting.mounted)
              ELSE UNCHANGED <<isAssignModalOpen, assignId, connectionError, inflight>>
    /\ awaiting' = NotAwaiting
    /\ UNCHANGED <<issued, activeSection, workers, projects, vehicles, equipment,
                   allocations, loading, isModalOpen, selectedProjectId, assignType,
                   text>>

\* handleAssignResource from the status update on: lines 487-492
handleAssignResource_update(reaches) ==
    /\ awaiting # NotAwaiting
    /\ LET r == Request(reaches, UpdateStatus(db, awaiting.table, awaiting.id, "in_use"))
       IN  /\ Commit(r)
           /\ Wrote("update", awaiting.table, awaiting.id, awaiting.project, r.error)
    /\ AssignDone(awaiting.mounted)
    /\ awaiting' = NotAwaiting
    /\ UNCHANGED <<issued, activeSection, workers, projects, vehicles, equipment,
                   allocations, loading, isModalOpen, selectedProjectId, assignType,
                   text>>

\* -------------------------------------------------------- the user's clicks --
Sections == {"dashboard", "workers", "projects", "vehicles", "equipment"}

\* NavItem onClick: lines 147-176
setActiveSection(section) ==
    /\ section # activeSection
    /\ activeSection' = section
    /\ Unmount
    /\ lastWrite' = NoWrite
    /\ UNCHANGED <<storeVars, workers, projects, vehicles, equipment, allocations,
                   loading, connectionError, inflight, events>>

\* the "Add" button of a view and the X of its form
setIsModalOpen(open) ==
    /\ \E section \in Sections \ {"dashboard"} : Rendered(section)
    /\ isModalOpen # open
    /\ isModalOpen' = open
    /\ lastWrite' = NoWrite
    /\ UNCHANGED <<storeVars, homeVars, inflight, events, isAssignModalOpen,
                   selectedProjectId, assignType, assignId, text, awaiting>>

\* the "Assign Resource" button of a project card: line 590
openAssign(project) ==
    /\ Rendered("projects")
    /\ project \in Ids(projects)
    /\ selectedProjectId' = project
    /\ isAssignModalOpen' = TRUE
    /\ lastWrite' = NoWrite
    /\ UNCHANGED <<storeVars, homeVars, inflight, events, isModalOpen, assignType,
                   assignId, text, awaiting>>

\* the X of the assign form: line 540
closeAssign ==
    /\ Rendered("projects")
    /\ isAssignModalOpen
    /\ isAssignModalOpen' = FALSE
    /\ lastWrite' = NoWrite
    /\ UNCHANGED <<storeVars, homeVars, inflight, events, isModalOpen,
                   selectedProjectId, assignType, assignId, text, awaiting>>

\* the "Resource Type" select: line 549
setAssignType(type) ==
    /\ Rendered("projects")
    /\ isAssignModalOpen
    /\ assignType' = type
    /\ assignId' = NULL
    /\ lastWrite' = NoWrite
    /\ UNCHANGED <<storeVars, homeVars, inflight, events, isModalOpen,
                   isAssignModalOpen, selectedProjectId, text, awaiting>>

\* the "Select Resource" select: line 562
setAssignId(id) ==
    /\ Rendered("projects")
    /\ isAssignModalOpen
    /\ id \in Options(assignType) \cup {NULL}
    /\ assignId' = id
    /\ lastWrite' = NoWrite
    /\ UNCHANGED <<storeVars, homeVars, inflight, events, isModalOpen,
                   isAssignModalOpen, selectedProjectId, assignType, text, awaiting>>

\* the required inputs of an add form: onChange of name, role, location,
\* plate, serial
setText(value) ==
    /\ \E section \in Sections \ {"dashboard"} : Rendered(section)
    /\ isModalOpen
    /\ text # value
    /\ text' = value
    /\ lastWrite' = NoWrite
    /\ UNCHANGED <<storeVars, homeVars, inflight, events, isModalOpen,
                   isAssignModalOpen, selectedProjectId, assignType, assignId,
                   awaiting>>

\* ------------------------------------- another browser on the same store --
\* Its lists may show any row that ever existed, so its handlers are called
\* with any id issued so far; its own page is not part of the state.
Ever(table) == 1..issued[table]

OtherWrite(r) ==
    /\ Commit(r)
    /\ lastWrite' = NoWrite
    /\ UNCHANGED <<homeVars, inflight, viewVars, awaiting>>

\* handleAddWorker, handleAddProject, handleAddVehicle, handleAddEquipment there
Other_handleAdd(table, row) ==
    /\ issued[table] < MaxRows(table)
    /\ LET r == InsertRow(db, table, NextId(table), row)
       IN  OtherWrite(r) /\ Issue(table, r)

\* handleDeleteWorker, handleDeleteProject and the two handleDelete there
Other_handleDelete(table, id) ==
    /\ id \in Ever(table)
    /\ OtherWrite(IF table = "projects" THEN DeleteProject(db, id)
                  ELSE DeleteAsset(db, table, id))
    /\ UNCHANGED issued

\* handleAssignResource there; updated: its status update reached the store
Other_handleAssignResource(project, type, asset, updated) ==
    /\ project \in Ever("projects")
    /\ asset \in Ever(AssetTable(type))
    /\ issued.resource_allocations < MaxAllocations
    /\ LET id == NextId("resource_allocations")
           r == InsertAllocation(db, id, Payload(id, project, type, asset))
       IN  /\ Issue("resource_allocations", r)
           /\ OtherWrite(IF r.error = None /\ type # "worker" /\ updated
                         THEN UpdateStatus(r.db, AssetTable(type), asset, "in_use")
                         ELSE r)

\* ------------------------------------------------------ the specification --
Messages == {"Failed to fetch", "permission denied"}

Init ==
    /\ db = EmptyDb
    /\ issued = [t \in DOMAIN EmptyDb |-> 0]
    /\ activeSection = "dashboard"
    /\ workers = <<>>
    /\ projects = <<>>
    /\ vehicles = <<>>
    /\ equipment = <<>>
    /\ allocations = {}
    /\ loading = TRUE
    /\ connectionError = None
    /\ inflight = <<NewFetch>>
    /\ events = 0
    /\ isModalOpen = FALSE
    /\ isAssignModalOpen = FALSE
    /\ selectedProjectId = NULL
    /\ assignType = "worker"
    /\ assignId = NULL
    /\ text = NULL
    /\ awaiting = NotAwaiting
    /\ lastWrite = NoWrite

\* what the user types into the license plate / serial number field: a
\* value no row holds yet
FreshText(table) == {NextId(table)}

\* or a value typed or inserted before
UsedText(table) == 1..issued[table]

\* the row the add form of a table inserts, with such a value
NewRow(table) ==
    CASE table = "workers" -> WorkerRow(NextId(table))
      [] table = "projects" -> ProjectRow(NextId(table))
      [] table = "vehicles" -> VehicleRow(NextId(table), NextId(table))
      [] table = "equipment" -> EquipmentRow(NextId(table), NextId(table))

AssignTypes == {"worker", "vehicle", "equipment"}

\* no fetchData call is awaiting its selects
Idle == inflight = <<>>

\* the page has caught up with the change events: none is undelivered and no
\* fetchData call is awaiting its selects
Settled == Idle /\ events = 0

\* a form lies over the page (fixed inset-0): the pointer reaches only the form
Modal == isModalOpen \/ isAssignModalOpen

\* the user acts on a settled page, and waits for a submitted form to return
Ready == Settled /\ awaiting = NotAwaiting

\* the user is on the page itself / on a form
OnPage == Ready /\ ~Modal
OnForm == Ready /\ Modal

\* The page and another browser on one store, on the schedules where change
\* events are delivered and the fetchData calls they start are served, without
\* a failure, before the next click or the next write of the other browser.
\* The other browser writes with any id ever issued, so every order of writes
\* the store can see from two pages is among them. (The schedules with late,
\* overlapping and failing fetchData calls are those of SpecFetch.)
Next ==
    \/ AnswerSelect(1, DOMAIN EmptyDb, None)
    \/ fetchDataResolves(1)
    \/ Idle /\ postgres_changes
    \/ \E section \in Sections : OnPage /\ setActiveSection(section)
    \/ OnPage /\ setIsModalOpen(TRUE)
    \/ \E project \in 1..MaxProjects : OnPage /\ openAssign(project)
    \/ \E id \in 1..MaxWorkers, reaches \in BOOLEAN :
            OnPage /\ handleDeleteWorker(id, reaches)
    \/ \E id \in 1..MaxProjects, reaches \in BOOLEAN :
            OnPage /\ handleDeleteProject(id, reaches)
    \/ \E id \in 1..MaxVehicles, reaches \in BOOLEAN :
            OnPage /\ VehiclesView_handleDelete(id, reaches)
    \/ \E id \in 1..MaxEquipment, reaches \in BOOLEAN :
            OnPage /\ EquipmentView_handleDelete(id, reaches)
    \/ \E type \in AssignTypes : OnForm /\ setAssignType(type)
    \/ \E id \in 0..MaxRows(AssetTable(assignType)) : OnForm /\ setAssignId(id)
    \/ \E reaches \in BOOLEAN : OnForm /\ handleAddWorker(reaches)
    \/ \E reaches \in BOOLEAN : OnForm /\ handleAddProject(reaches)
    \/ \E reaches \in BOOLEAN : OnForm /\ handleAddVehicle(text, reaches)
    \/ \E reaches \in BOOLEAN : OnForm /\ handleAddEquipment(text, reaches)
    \/ OnForm /\ isModalOpen /\
            \E value \in FreshText(activeSection) \cup UsedText(activeSection) :
                setText(value)
    \/ \E reaches \in BOOLEAN : OnForm /\ handleAssignResource(reaches)
    \/ \E reaches \in BOOLEAN : Idle /\ handleAssignResource_update(reaches)
    \/ \E t \in AssetTables : Settled /\ Other_handleAdd(t, NewRow(t))
    \/ Settled /\ Other_handleAdd("projects", NewRow("projects"))
    \/ \E t \in AssetTables : \E id \in 1..MaxRows(t) :
            Settled /\ Other_handleDelete(t, id)
    \/ \E id \in 1..MaxProjects : Settled /\ Other_handleDelete("projects", id)
    \/ \E project \in 1..MaxProjects, type \in AssignTypes, updated \in BOOLEAN :
          \E asset \in 1..MaxRows(AssetTable(type)) :
            Settled /\ Other_handleAssignResource(project, type, asset, updated)

Spec == Init /\ [][Next]_vars

\* the other browser fills the store table by table: it adds to a table when
\* the tables before it hold all their rows, and assigns at the end
Filled(k) == \A j \in 1..k : issued[Tables[j]] = MaxRows(Tables[j])

OtherFills ==
    \/ \E k \in 1..4 : Filled(k - 1) /\ Other_handleAdd(Tables[k], NewRow(Tables[k]))
    \/ \E project \in 1..MaxProjects, type \in AssignTypes, updated \in BOOLEAN :
          \E asset \in 1..MaxRows(AssetTable(type)) :
            Filled(4) /\ Other_handleAssignResource(project, type, asset, updated)

\* The page left alone by its user while another browser fills the store: up
\* to MaxFetches fetchData calls overlap and resolve in any order.
\* Errors: the messages a select may fail with; Parts: the selects of a call
\* that the store answers together.
Fetching(Errors, Parts) ==
    \/ \E i \in 1..MaxFetches, part \in Parts, m \in Errors \cup {None} :
            AnswerSelect(i, part, m)
    \/ \E i \in 1..MaxFetches : fetchDataResolves(i)
    \/ postgres_changes
    \/ OtherFills

\* no select fails, and each call is answered from one state of the store
NextReliable == Fetching({}, {DOMAIN EmptyDb})

SpecReliable == Init /\ [][NextReliable]_vars

\* a call is answered from one state of the store, or all its selects fail
NextFetch ==
    \/ Fetching(Messages, {DOMAIN EmptyDb})
    \/ \E i \in 1..MaxFetches, m \in Messages : fetchDataThrows(i, m)

SpecFetch == Init /\ [][NextFetch]_vars

\* what is typed into the license plate / serial number field when values
\* come back: one of MaxTexts texts
Texts == 1..MaxTexts

\* the row an add form inserts with the text typed into it
TextRow(table, value) ==
    CASE table = "workers" -> WorkerRow(NextId(table))
      [] table = "vehicles" -> VehicleRow(NextId(table), value)
      [] table = "equipment" -> EquipmentRow(NextId(table), value)

\* handleAddWorker, handleAddVehicle, handleAddEquipment in the other browser,
\* which adds up to MaxTexts rows to a table
Other_handleAddText(table, value) ==
    LET r == InsertRow(db, table, NextId(table), TextRow(table, value))
    IN  /\ r.error = None => issued[table] < MaxTexts
        /\ OtherWrite(r)
        /\ Issue(table, r)

\* The vehicles and equipment views and another browser, both typing plates
\* and serial numbers that may be in use, on the settled schedules of Spec.
NextUnique ==
    \/ AnswerSelect(1, DOMAIN EmptyDb, None)
    \/ fetchDataResolves(1)
    \/ Idle /\ postgres_changes
    \/ \E section \in {"vehicles", "equipment"} : OnPage /\ setActiveSection(section)
    \/ OnPage /\ setIsModalOpen(TRUE)
    \/ OnForm /\ setIsModalOpen(FALSE)
    \/ \E value \in Texts : OnForm /\ setText(value)
    \/ OnForm /\ handleAddVehicle(text, TRUE)
    \/ OnForm /\ handleAddEquipment(text, TRUE)
    \/ \E id \in Texts : OnPage /\ VehiclesView_handleDelete(id, TRUE)
    \/ \E id \in Texts : OnPage /\ EquipmentView_handleDelete(id, TRUE)
    \/ \E t \in AssetTables, value \in Texts : Settled /\ Other_handleAddText(t, value)

SpecUnique == Init /\ [][NextUnique]_vars

\* The page clicked while its lists are behind the store: the user walks
\* through the views of a settled page, and clicks delete on a listed row at
\* any moment, also before an event is delivered or a fetchData call has
\* resolved; another browser adds rows table by table and deletes rows.
NextStale ==
    \/ \E i \in 1..MaxFetches : AnswerSelect(i, DOMAIN EmptyDb, None)
    \/ \E i \in 1..MaxFetches : fetchDataResolves(i)
    \/ postgres_changes
    \/ \E section \in Sections \ {"dashboard"} : OnPage /\ setActiveSection(section)
    \/ \E id \in 1..MaxWorkers, reaches \in BOOLEAN : handleDeleteWorker(id, reaches)
    \/ \E id \in 1..MaxProjects, reaches \in BOOLEAN : handleDeleteProject(id, reaches)
    \/ \E id \in 1..MaxVehicles, reaches \in BOOLEAN :
            VehiclesView_handleDelete(id, reaches)
    \/ \E id \in 1..MaxEquipment, reaches \in BOOLEAN :
            EquipmentView_handleDelete(id, reaches)
    \/ \E k \in 1..4 :
            Settled /\ Filled(k - 1) /\ Other_handleAdd(Tables[k], NewRow(Tables[k]))
    \/ \E k \in 1..4 : \E id \in 1..MaxRows(Tables[k]) :
            Settled /\ Other_handleDelete(Tables[k], id)

SpecStale == Init /\ [][NextStale]_vars

\* the selects of the call before this one in the Promise.all are answered
InOrder(i, k) ==
    /\ i \in 1..Len(inflight)
    /\ \A j \in 1..(k - 1) : inflight[i][Tables[j]].answered

\* One fetchData call at a time, its selects answered one by one in the order
\* of the Promise.all, each from the store as it is then or with an error of
\* its own, or the call throws; another browser adds rows to the store, table
\* by table, also between two selects of a call.
NextSelects ==
    \/ \E k \in 1..5, m \in Messages \cup {None} :
            InOrder(1, k) /\ AnswerSelect(1, {Tables[k]}, m)
    \/ fetchDataResolves(1)
    \/ \E m \in Messages : fetchDataThrows(1, m)
    \/ Idle /\ postgres_changes
    \/ \E k \in 1..4 : Filled(k - 1) /\ Other_handleAdd(Tables[k], NewRow(Tables[k]))

SpecSelects == Init /\ [][NextSelects]_vars

\* The workers and projects views of a page whose requests fail: a fetchData
\* call is answered from one state of the store, or all its selects fail, or
\* it throws; the user adds, deletes and assigns workers on a settled page,
\* with requests that may not reach the store; another browser adds rows.
NextFailures ==
    \/ \E m \in Messages \cup {None} : AnswerSelect(1, DOMAIN EmptyDb, m)
    \/ fetchDataResolves(1)
    \/ \E m \in Messages : fetchDataThrows(1, m)
    \/ Idle /\ postgres_changes
    \/ \E section \in {"workers", "projects"} : OnPage /\ setActiveSection(section)
    \/ OnPage /\ setIsModalOpen(TRUE)
    \/ OnForm /\ isModalOpen /\ \E value \in FreshText(activeSection) : setText(value)
    \/ \E reaches \in BOOLEAN : OnForm /\ handleAddWorker(reaches)
    \/ \E reaches \in BOOLEAN : OnForm /\ handleAddProject(reaches)
    \/ \E id \in 1..MaxWorkers, reaches \in BOOLEAN :
            OnPage /\ handleDeleteWorker(id, reaches)
    \/ \E id \in 1..MaxProjects, reaches \in BOOLEAN :
            OnPage /\ handleDeleteProject(id, reaches)
    \/ \E project \in 1..MaxProjects : OnPage /\ openAssign(project)
    \/ \E id \in 1..MaxWorkers : OnForm /\ setAssignId(id)
    \/ \E reaches \in BOOLEAN : OnForm /\ handleAssignResource(reaches)
    \/ \E k \in 1..2 : Settled /\ Other_handleAdd(Tables[k], NewRow(Tables[k]))

SpecFailures == Init /\ [][NextFailures]_vars

\* The page left alone while another browser adds workers and projects and
\* assigns workers: one fetchData call at a time, its five selects answered one
\* by one in the order of the Promise.all, each from the store as it is then.
NextTorn ==
    \/ \E k \in 1..5 : InOrder(1, k) /\ AnswerSelect(1, {Tables[k]}, None)
    \/ fetchDataResolves(1)
    \/ Idle /\ postgres_changes
    \/ \E k \in 1..2 : Filled(k - 1) /\ Other_handleAdd(Tables[k], NewRow(Tables[k]))
    \/ \E project \in 1..MaxProjects, asset \in 1..MaxWorkers :
            Other_handleAssignResource(project, "worker", asset, FALSE)
    \/ \E id \in 1..MaxProjects : Other_handleDelete("projects", id)

SpecTorn == Init /\ [][NextTorn]_vars

\* ================================================================ claims ==
Allocs == db.resource_allocations

\* the allocations of store d that reference row id of an asset table
Referencing(d, table, id) ==
    {a \in DOMAIN d.resource_allocations :
        d.resource_allocations[a][RefColumn(table)] = id}

\* store d holds an allocation of the asset to the project
HasAllocation(d, project, table, id) ==
    \E a \in Referencing(d, table, id) : d.resource_allocations[a].project_id = project

\* this step called fetchData
FetchStarted == inflight' = Append(inflight, NewFetch)

AllNull(id, project) ==
    [id |-> id, project_id |-> project, worker_id |-> NULL, vehicle_id |-> NULL,
     equipment_id |-> NULL]

\* C1: in every reachable state every row of resource_allocations has a
\* worker_id, a vehicle_id or an equipment_id, and an insert of a row with none
\* of the three is answered with an error and leaves the store as it was
C1_AtLeastOneResource ==
    /\ \A a \in DOMAIN Allocs :
          \/ Allocs[a].worker_id # NULL
          \/ Allocs[a].vehicle_id # NULL
          \/ Allocs[a].equipment_id # NULL
    /\ \A project \in 0..MaxProjects :
          LET id == NextId("resource_allocations")
              r == InsertAllocation(db, id, AllNull(id, project))
          IN  r.error # None /\ r.db = db

\* the store holds allocations, and a row with no asset for an existing project
\* is refused for the CHECK constraint alone
C1_Witness ==
    /\ DOMAIN Allocs # {}
    /\ \E project \in DOMAIN db.projects :
          LET id == NextId("resource_allocations")
          IN  InsertAllocation(db, id, AllNull(id, project)).error = "check_violation"

\* a delete of row id of an asset table by this page reached the store
DeleteReached(table, id) ==
    /\ lastWrite'.op = "delete"
    /\ lastWrite'.table = table
    /\ lastWrite'.id = id
    /\ lastWrite'.error # "Failed to fetch"
    /\ id \in DOMAIN db[table]

\* the allocations are those before with the reference to row id cleared
Cleared(table, id) ==
    /\ DOMAIN Allocs' = DOMAIN Allocs
    /\ \A a \in DOMAIN Allocs :
          Allocs'[a] = IF Allocs[a][RefColumn(table)] = id
                       THEN [Allocs[a] EXCEPT ![RefColumn(table)] = NULL]
                       ELSE Allocs[a]

\* C2 as stated: the delete of a referenced worker, vehicle or equipment row
\* removes the row, clears the reference and keeps every allocation
C2_DeleteClearsReference ==
    [][\A t \in AssetTables : \A id \in 1..MaxRows(t) :
          (DeleteReached(t, id) /\ Referencing(db, t, id) # {}) =>
              (id \notin DOMAIN db'[t] /\ Cleared(t, id))]_vars

\* the reference to row id is the only one the allocation has
OnlyReference(a, table) ==
    \A u \in AssetTables \ {table} : Allocs[a][RefColumn(u)] = NULL

\* C2: the delete of a worker, vehicle or equipment row that is the only asset
\* of some allocation is rejected with a check violation and changes nothing;
\* otherwise the row goes, the references to it are cleared and every
\* allocation row stays
C2_DeleteRejectedOrClears ==
    [][\A t \in AssetTables : \A id \in 1..MaxRows(t) :
          DeleteReached(t, id) =>
              IF \E a \in Referencing(db, t, id) : OnlyReference(a, t)
              THEN lastWrite'.error = "check_violation" /\ db' = db
              ELSE /\ lastWrite'.error = None
                   /\ id \notin DOMAIN db'[t]
                   /\ Cleared(t, id)]_vars

\* the page deleted an allocated asset and the store refused
C2_Witness ==
    /\ lastWrite.op = "delete"
    /\ lastWrite.table \in AssetTables
    /\ lastWrite.error = "check_violation"
    /\ Referencing(db, lastWrite.table, lastWrite.id) # {}

\* C3: no allocation of the store has the project_id of a project that was
\* deleted, whatever was assigned to the project before
C3_NoAllocationOfDeletedProject ==
    \A p \in 1..issued.projects :
        p \notin DOMAIN db.projects =>
            \A a \in DOMAIN Allocs : Allocs[a].project_id # p

\* the page deleted a project and two allocations went with it
C3_Witness ==
    /\ lastWrite.op = "delete"
    /\ lastWrite.table = "projects"
    /\ lastWrite.error = None
    /\ lastWrite.id \notin DOMAIN db.projects
    /\ events = 3

StatusTables == {"vehicles", "equipment"}

\* handleAssignResource for asset V of table t and project P returned in this
\* step: after its status update, or after its insert was answered with an error
Returned(t, V, P) ==
    /\ lastWrite'.table = t
    /\ lastWrite'.id = V
    /\ lastWrite'.project = P
    /\ \/ lastWrite'.op = "update"
       \/ lastWrite'.op = "assign" /\ lastWrite'.error # None

InUse(d, t, V) == V \in DOMAIN d[t] /\ d[t][V].status = "in_use"

C5_UpdateFailureUndetected ==
    [][/\ (/\ lastWrite'.op = "assign"
           /\ lastWrite'.table \in StatusTables
           /\ lastWrite'.error = None) =>
              /\ awaiting' # NotAwaiting
              /\ db'[lastWrite'.table] = db[lastWrite'.table]
       /\ lastWrite'.op = "update" =>
              /\ awaiting' = NotAwaiting
              /\ FetchStarted
              /\ awaiting.mounted => (~isAssignModalOpen' /\ assignId' = NULL)
              /\ lastWrite'.error # None => db' = db
       /\ (db' # db /\ lastWrite' = NoWrite) =>
              UNCHANGED <<homeVars, viewVars, inflight, awaiting>>]_vars

\* the insert was accepted, the status update failed: the store holds an
\* allocation of an asset that is still available
C5_Witness ==
    /\ lastWrite.op = "update"
    /\ lastWrite.error # None
    /\ Referencing(db, lastWrite.table, lastWrite.id) # {}
    /\ db[lastWrite.table][lastWrite.id].status = "available"

\* a handler of this page that wrote to the store returned in this step
HandlerReturned ==
    \/ lastWrite'.op \in {"insert", "delete", "update"}
    \/ lastWrite'.op = "assign" /\ (lastWrite'.error # None \/ lastWrite'.table = "workers")

\* C8 as stated: every handler that wrote to the store calls fetchData
\* before it returns, whatever the store answered
C8_EveryWriteRefetches == [][HandlerReturned => FetchStarted]_vars

\* C8: a delete handler calls fetchData whatever the store answered, and so
\* does handleAssignResource once its insert was accepted; an add handler, and
\* handleAssignResource after its insert, call it only when the insert was
\* accepted, and start no fetch otherwise
C8_RefetchUnlessInsertRejected ==
    [][HandlerReturned =>
          IF lastWrite'.op \in {"delete", "update"} \/ lastWrite'.error = None
          THEN FetchStarted
          ELSE inflight' = inflight]_vars

\* an insert of the page was answered with an error and nothing is fetched
C8_Witness ==
    /\ lastWrite.op \in {"insert", "assign"}
    /\ lastWrite.error # None
    /\ inflight = <<>>
    /\ events = 0

\* C9: every event the subscription delivers calls fetchData, one call for
\* each event
C9_EveryEventRefetches ==
    [][events' < events => (events' = events - 1 /\ FetchStarted)]_vars

\* after the first load, an event started a fetch while another event waits
C9_Witness ==
    /\ ~loading
    /\ lastWrite = NoWrite
    /\ inflight = <<NewFetch>>
    /\ events > 0

\* C10: a vehicle or equipment row whose status is in_use keeps that status in
\* every step that keeps the row
C10_InUseStays ==
    [][\A t \in StatusTables : \A id \in DOMAIN db[t] \cap DOMAIN db'[t] :
          db[t][id].status = "in_use" => db'[t][id].status = "in_use"]_vars

\* the page deleted the project of an asset in use: no allocation references
\* the asset and it is still in_use
C10_Witness ==
    /\ lastWrite.op = "delete"
    /\ lastWrite.table = "projects"
    /\ lastWrite.error = None
    /\ \E t \in StatusTables : \E id \in DOMAIN db[t] :
          db[t][id].status = "in_use" /\ Referencing(db, t, id) = {}

\* the fetchData call at position i of inflight completed in this step
Completed(i) ==
    /\ i \in 1..Len(inflight)
    /\ Len(inflight') = Len(inflight) - 1
    /\ inflight' = RemoveAt(inflight, i)

\* a collection of the page after a select with this answer
Kept(current, answer) ==
    IF answer.answered /\ answer.error = None THEN answer.data ELSE current

\* C6 as stated: when a fetchData call completes, the five collections are
\* what its five selects returned
C6_LastCompletedFetchWins ==
    [][\A i \in 1..MaxFetches :
          Completed(i) =>
              /\ workers' = inflight[i].workers.data
              /\ projects' = inflight[i].projects.data
              /\ vehicles' = inflight[i].vehicles.data
              /\ equipment' = inflight[i].equipment.data
              /\ allocations' = inflight[i].resource_allocations.data]_vars

\* C6: when a fetchData call completes, in whatever order the calls in flight
\* do, each collection becomes what the call's select of it returned if that
\* select was answered without error, and stays as it was otherwise; no other
\* step changes a collection
C6_LastCompletedFetchWinsPerSelect ==
    [][/\ \A i \in 1..MaxFetches :
             Completed(i) =>
                 /\ workers' = Kept(workers, inflight[i].workers)
                 /\ projects' = Kept(projects, inflight[i].projects)
                 /\ vehicles' = Kept(vehicles, inflight[i].vehicles)
                 /\ equipment' = Kept(equipment, inflight[i].equipment)
                 /\ allocations' = Kept(allocations, inflight[i].resource_allocations)
       /\ Len(inflight') >= Len(inflight) =>
             UNCHANGED <<workers, projects, vehicles, equipment, allocations>>]_vars

\* a call that read older contents of the store than the page shows is still
\* in flight, answered without error, behind nothing that would stop it
C6_Witness ==
    /\ Len(inflight) = 1
    /\ \A t \in DOMAIN inflight[1] :
          inflight[1][t].answered /\ inflight[1][t].error = None
    /\ Len(inflight[1].projects.data) < Len(projects)
    /\ projects = Select(db, "projects")

\* the page shows the contents of the store
ViewIsStore ==
    /\ workers = Select(db, "workers")
    /\ projects = Select(db, "projects")
    /\ vehicles = Select(db, "vehicles")
    /\ equipment = Select(db, "equipment")
    /\ allocations = Select(db, "resource_allocations")

\* C7: when every fetchData call has completed, none having failed, and every
\* change of the store has been delivered, the five collections are the
\* contents of the store
C7_SettledViewIsStore == (inflight = <<>> /\ events = 0) => ViewIsStore

\* the allocation rows this step inserted
Inserted == DOMAIN Allocs' \ DOMAIN Allocs

\* the reference columns of the row that are not null
Set(row) == {t \in AssetTables : row[RefColumn(t)] # NULL}

\* C11: an insert of handleAssignResource that reaches the store while the
\* project or the asset it names is not in the store is answered with a
\* foreign key violation and changes nothing; and no step, of this page or of
\* another browser, inserts an allocation of a row that is not in the store
C11_DanglingAssignRejected ==
    [][/\ (/\ lastWrite'.op = "assign"
           /\ lastWrite'.error # "Failed to fetch"
           /\ \/ lastWrite'.project \notin DOMAIN db.projects
              \/ lastWrite'.id \notin DOMAIN db[lastWrite'.table]) =>
              /\ lastWrite'.error = "foreign_key_violation"
              /\ db' = db
              /\ issued' = issued
       /\ \A a \in Inserted :
              /\ Allocs'[a].project_id \in DOMAIN db.projects
              /\ \A t \in Set(Allocs'[a]) : Allocs'[a][RefColumn(t)] \in DOMAIN db[t]]_vars

\* the assign form was submitted for a project another browser had deleted
C11_Witness ==
    /\ lastWrite.op = "assign"
    /\ lastWrite.error = "foreign_key_violation"
    /\ lastWrite.project \notin DOMAIN db.projects
    /\ lastWrite.id \in DOMAIN db[lastWrite.table]

\* C12: a row handleAssignResource inserts has the column of the chosen kind
\* set to the chosen id, the two other reference columns null and the chosen
\* project; every inserted allocation has one reference column set
C12_SingleReference ==
    [][\A a \in Inserted :
          /\ Cardinality(Set(Allocs'[a])) = 1
          /\ lastWrite'.op = "assign" =>
                /\ Allocs'[a].project_id = lastWrite'.project
                /\ Allocs'[a][RefColumn(lastWrite'.table)] = lastWrite'.id
                /\ \A t \in AssetTables \ {lastWrite'.table} :
                      Allocs'[a][RefColumn(t)] = NULL]_vars

\* the page assigned an equipment item after a vehicle was assigned
C12_Witness ==
    /\ lastWrite.op = "assign"
    /\ lastWrite.table = "equipment"
    /\ lastWrite.error = None
    /\ \E a \in DOMAIN Allocs : Allocs[a].equipment_id = lastWrite.id
    /\ \E a \in DOMAIN Allocs : Allocs[a].vehicle_id # NULL

\* C13: an insert of handleAssignResource for a worker and a project that are
\* in the store is accepted whatever allocations exist, adds one row and
\* leaves every other row as it was
C13_WorkerAssignedAgain ==
    [][(/\ lastWrite'.op = "assign"
        /\ lastWrite'.table = "workers"
        /\ lastWrite'.error # "Failed to fetch"
        /\ lastWrite'.project \in DOMAIN db.projects
        /\ lastWrite'.id \in DOMAIN db.workers) =>
           /\ lastWrite'.error = None
           /\ Cardinality(Inserted) = 1
           /\ \A a \in DOMAIN Allocs : a \in DOMAIN Allocs' /\ Allocs'[a] = Allocs[a]]_vars

\* the page assigned a worker to a project it was already allocated to: two rows
C13_Witness ==
    /\ lastWrite.op = "assign"
    /\ lastWrite.table = "workers"
    /\ lastWrite.error = None
    /\ \E a, b \in DOMAIN Allocs :
          /\ a # b
          /\ Allocs[a].worker_id = lastWrite.id
          /\ Allocs[b].worker_id = lastWrite.id
          /\ Allocs[a].project_id = lastWrite.project
          /\ Allocs[b].project_id = lastWrite.project

\* C14: handleAssignResource for a worker writes to resource_allocations
\* only: the workers, vehicles and equipment tables are as before, no status
\* update follows, and a status update is never sent for a worker
C14_WorkerAssignFrame ==
    [][/\ (lastWrite'.op = "assign" /\ lastWrite'.table = "workers") =>
              /\ db'.workers = db.workers
              /\ db'.vehicles = db.vehicles
              /\ db'.equipment = db.equipment
              /\ awaiting' = NotAwaiting
       /\ lastWrite'.op = "update" => lastWrite'.table \in StatusTables]_vars

\* the page assigned a worker, whose status is as inserted, while a vehicle
\* or an equipment item is in the store
C14_Witness ==
    /\ lastWrite.op = "assign"
    /\ lastWrite.table = "workers"
    /\ lastWrite.error = None
    /\ db.workers[lastWrite.id].status = "active"
    /\ DOMAIN db.vehicles \cup DOMAIN db.equipment # {}

\* no two rows of the table hold the same non-null value in the column
NoDuplicate(table, col) ==
    \A a, b \in DOMAIN db[table] :
        (a # b /\ db[table][a][col] # NULL) => db[table][a][col] # db[table][b][col]

\* some row of the table holds the value in the column
Taken(table, col, value) == \E a \in DOMAIN db[table] : db[table][a][col] = value

\* C15: in every reachable state no two workers share a non-null email, no
\* two vehicles a non-null license_plate, no two equipment items a non-null
\* serial_number; and an insert of a vehicle or equipment row with a value a
\* row holds is answered with a unique violation and leaves the store as it was
C15_UniqueColumns ==
    /\ NoDuplicate("workers", "email")
    /\ NoDuplicate("vehicles", "license_plate")
    /\ NoDuplicate("equipment", "serial_number")
    /\ \A value \in Texts :
          /\ Taken("vehicles", "license_plate", value) =>
                InsertRow(db, "vehicles", NextId("vehicles"),
                          TextRow("vehicles", value)) = Result("unique_violation", db)
          /\ Taken("equipment", "serial_number", value) =>
                InsertRow(db, "equipment", NextId("equipment"),
                          TextRow("equipment", value)) = Result("unique_violation", db)

\* the store holds two vehicles, and two workers without email, and the page
\* was refused a vehicle with a license plate in use
C15_Witness ==
    /\ lastWrite.op = "insert"
    /\ lastWrite.table = "vehicles"
    /\ lastWrite.error = "unique_violation"
    /\ Cardinality(DOMAIN db.vehicles) = 2
    /\ Cardinality(DOMAIN db.workers) = 2

\* handleAssignResource got past its insert and returned in this step
AssignReturned ==
    \/ lastWrite'.op = "update"
    \/ lastWrite'.op = "assign" /\ lastWrite'.error = None /\ lastWrite'.table = "workers"

\* C16: a step in which an insert of an add form or of the assign form is
\* answered with an error changes nothing on the page: the form stays open
\* with what was entered and no notice is set. An add form closes with its
\* inputs cleared when its insert is accepted, and a handler closes a form or
\* clears an input in no other case than an accepted insert
C16_RejectedKeepsForm ==
    [][/\ (lastWrite'.op \in {"insert", "assign"} /\ lastWrite'.error # None) =>
              /\ UNCHANGED <<viewVars, homeVars, inflight>>
              /\ lastWrite'.op = "insert" => (isModalOpen' /\ text' # NULL)
              /\ lastWrite'.op = "assign" => (isAssignModalOpen' /\ assignId' # NULL)
       /\ (lastWrite'.op = "insert" /\ lastWrite'.error = None) =>
              (~isModalOpen' /\ text' = NULL)
       /\ (lastWrite' # NoWrite /\ (isModalOpen' # isModalOpen \/ text' # text)) =>
              (lastWrite'.op = "insert" /\ lastWrite'.error = None)
       /\ (lastWrite' # NoWrite /\ (isAssignModalOpen' # isAssignModalOpen
                                    \/ assignId' # assignId)) =>
              AssignReturned
       /\ lastWrite' # NoWrite =>
              UNCHANGED <<selectedProjectId, assignType>>]_vars

\* the store refused the row of an add form for its license plate or serial
\* number: the form is open and holds what was typed
C16_Witness ==
    /\ lastWrite.op = "insert"
    /\ lastWrite.error = "unique_violation"
    /\ isModalOpen
    /\ text # NULL
    /\ connectionError = None

\* C17: a delete by an id that no row of the table has is answered without
\* error, changes nothing in the store and publishes no change; and every
\* delete handler, whatever the store did, clears the notice, calls fetchData
\* and leaves the rest of the page as it was
C17_DeleteOfAbsentRow ==
    [][/\ (/\ lastWrite'.op = "delete"
           /\ lastWrite'.error # "Failed to fetch"
           /\ lastWrite'.id \notin DOMAIN db[lastWrite'.table]) =>
              /\ lastWrite'.error = None
              /\ db' = db
              /\ events' = events
       /\ lastWrite'.op = "delete" =>
              /\ FetchStarted
              /\ connectionError' = None
              /\ UNCHANGED <<activeSection, workers, projects, vehicles, equipment,
                             allocations, loading, viewVars>>]_vars

\* the page deleted a listed row that was no longer in the store: no error,
\* no change published, a fetch in flight
C17_Witness ==
    /\ lastWrite.op = "delete"
    /\ lastWrite.error = None
    /\ lastWrite.id \in 1..issued[lastWrite.table]
    /\ events = 0
    /\ inflight # <<>>
    /\ connectionError = None

\* C18: when the Promise.all of a fetchData call resolves and one of its
\* selects reported 'Failed to fetch' or 'Connection refused', the connection
\* notice is set
C18_UnreachableSetsNotice ==
    [][\A i \in 1..MaxFetches :
          (/\ Completed(i)
           /\ \A t \in DOMAIN inflight[i] : inflight[i][t].answered
           /\ \E t \in DOMAIN inflight[i] : IsConnectionMessage(inflight[i][t].error)) =>
              connectionError' = CannotConnect]_vars

\* C19: for every project the page lists, projectAllocations is the part of
\* the allocations collection with that project_id, no row of another project
\* among them; on a settled page these are the allocations the store holds
\* for the project
C19_AllocationsOfProject ==
    \A P \in Ids(projects) :
        /\ projectAllocations(P) \subseteq allocations
        /\ \A a \in allocations : a \in projectAllocations(P) <=> a.project_id = P
        /\ Settled =>
              projectAllocations(P) =
                  {Allocs[a] : a \in {b \in DOMAIN Allocs : Allocs[b].project_id = P}}

\* the projects view of a settled page after a worker was assigned to the
\* newer project: its card has that one row, the older project's card another
C19_Witness ==
    /\ Settled
    /\ Rendered("projects")
    /\ Ids(projects) = {1, 2}
    /\ \E a \in allocations : projectAllocations(2) = {a} /\ a.worker_id # NULL
    /\ projectAllocations(1) # {}

\* a collection lists later rows first, and on a settled page it lists the
\* rows the store's table holds
NewestFirst(collection, rows) ==
    /\ \A i, j \in 1..Len(collection) :
           i < j => collection[i].id > collection[j].id
    /\ Settled =>
           /\ Ids(collection) = DOMAIN rows
           /\ \A i \in 1..Len(collection) : collection[i] = rows[collection[i].id]

\* C20: the workers, projects, vehicles and equipment collections list their
\* rows in descending order of creation, a later row before every earlier one,
\* and after the fetches of a settled page they list the store's rows
C20_NewestFirst ==
    /\ NewestFirst(workers, db.workers)
    /\ NewestFirst(projects, db.projects)
    /\ NewestFirst(vehicles, db.vehicles)
    /\ NewestFirst(equipment, db.equipment)

\* a settled page whose projects collection lists the second project created
\* before the first
C20_Witness ==
    /\ Settled
    /\ Len(projects) = 2
    /\ projects[1].id = 2
    /\ projects[2].id = 1
    /\ DOMAIN db.projects = {1, 2}

\* renderContent shows a view: neither the notice nor "Loading data..."
ViewShown == connectionError = None /\ ~loading

\* C21 as stated: no failure leaves the page where the user can call no
\* handler and the page starts no fetchData: whenever no fetchData call is
\* pending and no event is undelivered, a view with its handlers is shown
C21_AlwaysActionable == Settled => ViewShown

\* C21: a fetchData call that completes, resolved or thrown, leaves loading
\* false; a request of a handler that is answered with an error leaves the
\* view shown; a fetchData call that completes without a connection message
\* leaves the notice and the forms as they were. After a connection message
\* the notice replaces the view with its handlers, and every fetchData call
\* started later, by a change event, clears it
C21_FailuresAreNotFatal ==
    [][/\ Len(inflight') < Len(inflight) => ~loading'
       /\ lastWrite'.error # None =>
              (connectionError' = None /\ ~loading' /\ activeSection' = activeSection)
       /\ (Len(inflight') < Len(inflight) /\ connectionError' # CannotConnect) =>
              (connectionError' = connectionError /\ viewVars' = viewVars)
       /\ (Len(inflight') < Len(inflight) /\ connectionError' = CannotConnect) =>
              (~isModalOpen' /\ ~isAssignModalOpen')
       /\ FetchStarted => connectionError' = None]_vars

\* the notice is shown after a failed fetchData call, and a change event is
\* about to start the next
C21_Witness ==
    /\ connectionError = CannotConnect
    /\ ~loading
    /\ Idle
    /\ events > 0

\* C22: every vehicle and every equipment item of the store is referenced by
\* at most one allocation
C22_AtMostOneAllocation ==
    \A t \in StatusTables : \A id \in DOMAIN db[t] :
        Cardinality(Referencing(db, t, id)) <= 1

\* C23: every vehicle and equipment item of the store whose status is in_use
\* is referenced by an allocation
C23_InUseIsAllocated ==
    \A t \in StatusTables : \A id \in DOMAIN db[t] :
        db[t][id].status = "in_use" => Referencing(db, t, id) # {}

\* C24: every allocation of the store names an existing project, and each of
\* its worker_id, vehicle_id and equipment_id is null or names an existing row
C24_ReferencesExist ==
    \A a \in DOMAIN Allocs :
        /\ Allocs[a].project_id \in DOMAIN db.projects
        /\ \A t \in AssetTables :
              \/ Allocs[a][RefColumn(t)] = NULL
              \/ Allocs[a][RefColumn(t)] \in DOMAIN db[t]

\* an allocation survived the delete of a project and of an asset: a project
\* and a worker were deleted while an allocation of another project holds a
\* vehicle or equipment item
C24_Witness ==
    /\ DOMAIN Allocs # {}
    /\ Cardinality(DOMAIN db.projects) < issued.projects
    /\ \E t \in AssetTables : Cardinality(DOMAIN db[t]) < issued[t]

\* C25: a step in which the insert of handleAssignResource is answered with an
\* error leaves the store, so its vehicles and equipment, as it was, leaves no
\* status update to come, keeps the assign form open with its selection and
\* calls no fetchData; and a status update is sent only by a handler whose
\* insert was accepted
C25_RejectedAssignStops ==
    [][/\ (lastWrite'.op = "assign" /\ lastWrite'.error # None) =>
              /\ db' = db
              /\ awaiting' = NotAwaiting
              /\ isAssignModalOpen'
              /\ assignId' = assignId
              /\ selectedProjectId' = selectedProjectId
              /\ inflight' = inflight
       /\ (awaiting = NotAwaiting /\ awaiting' # NotAwaiting) =>
              (lastWrite'.op = "assign" /\ lastWrite'.error = None)
       /\ lastWrite'.op = "update" => awaiting # NotAwaiting]_vars

\* the store refused the allocation of an available vehicle or equipment item
\* to a project that is gone: the item is available, the form open, no fetchData
\* call pending
C25_Witness ==
    /\ lastWrite.op = "assign"
    /\ lastWrite.table \in StatusTables
    /\ lastWrite.error = "foreign_key_violation"
    /\ db[lastWrite.table][lastWrite.id].status = "available"
    /\ isAssignModalOpen
    /\ awaiting = NotAwaiting
    /\ Idle

\* C26: every allocation of the page's allocations collection has the
\* project_id of a project of its projects collection
C26_AllocationsOfListedProjects ==
    \A a \in allocations : a.project_id \in Ids(projects)

\* every select of the fetchData call at position i was answered with data
Succeeded(i) ==
    /\ i \in 1..Len(inflight)
    /\ \A t \in DOMAIN inflight[i] : inflight[i][t].answered /\ inflight[i][t].error = None

\* C27: when a fetchData call whose five selects all returned data completes,
\* the notice is cleared and the five collections are what it fetched
C27_LastSuccessClearsNotice ==
    [][\A i \in 1..MaxFetches :
          (Completed(i) /\ Succeeded(i)) =>
              /\ connectionError' = None
              /\ workers' = inflight[i].workers.data
              /\ projects' = inflight[i].projects.data
              /\ vehicles' = inflight[i].vehicles.data
              /\ equipment' = inflight[i].equipment.data
              /\ allocations' = inflight[i].resource_allocations.data]_vars

\* the collection of the page that holds the rows of a table
Collection(table) ==
    CASE table = "workers" -> workers
      [] table = "projects" -> projects
      [] table = "vehicles" -> vehicles
      [] table = "equipment" -> equipment
      [] table = "resource_allocations" -> allocations

\* C28: when a fetchData call completes, a collection whose select was
\* answered with an error, and every collection when the call threw, is what
\* it was; a collection whose select returned data is that data, whatever the
\* four other selects answered
C28_NoDataKeepsCollection ==
    [][Completed(1) =>
          \A k \in 1..5 :
              LET answer == inflight[1][Tables[k]]
                  resolved == \A t \in DOMAIN inflight[1] : inflight[1][t].answered
              IN  IF resolved /\ answer.error = None
                  THEN Collection(Tables[k])' = answer.data
                  ELSE Collection(Tables[k])' = Collection(Tables[k])]_vars

\* after the last fetchData call the workers collection is the store's and
\* the projects collection is not: the projects select returned no data
C28_Witness ==
    /\ Settled
    /\ workers # <<>>
    /\ workers = Select(db, "workers")
    /\ projects = <<>>
    /\ db.projects # <<>>
    /\ vehicles = Select(db, "vehicles")
    /\ vehicles # <<>>

====
